---- MODULE Spec2Model ----
(***************************************************************************)
(* Model of the endian-tagged integers (src/endians.hpp) and of the WAVE   *)
(* file writer (src/wavefile.hpp).                                          *)
(*                                                                         *)
(* A fixed-width integer is a sequence of base-256 digits, least           *)
(* significant first: <<b0, b1, ..., b(w-1)>> stands for the value         *)
(* b0 + 256*b1 + ... ; uint16_t has 2 digits, uint32_t 4, uint64_t and     *)
(* size_t 8.  Arithmetic is done digit by digit and truncated to the width *)
(* of the C++ type it is computed in.  The bytes of an object in memory,   *)
(* at increasing addresses, are given by Mem, which depends on the host.   *)
(***************************************************************************)
EXTENDS Integers, Sequences, FiniteSets, TLC

VARIABLES host, e_pc, e_tag, e_w, e_sgn, e_v, e_val, e_out,
          pc, call, hargs, header, sample_bytes, stream, file, result, trace,
          front_ub

vars == <<host, e_pc, e_tag, e_w, e_sgn, e_v, e_val, e_out,
          pc, call, hargs, header, sample_bytes, stream, file, result, trace,
          front_ub>>

evars == <<e_pc, e_tag, e_w, e_sgn, e_v, e_val, e_out>>
wvars == <<pc, call, hargs, header, sample_bytes, stream, file, result, trace,
           front_ub>>

\* Longest sample buffer whose contents are enumerated.
MaxSamples == 4

Hosts == {"little", "big"}

----------------------------------------------------------------------------
\* Digit arithmetic

\* Conversion of an integer to an unsigned type of w bytes (zero extension
\* or truncation, i.e. reduction modulo 2^(8w)).
Trunc(d, w) == [k \in 1..w |-> IF k <= Len(d) THEN d[k] ELSE 0]

RECURSIVE ToDigits(_, _)
ToDigits(n, w) == IF w = 0 THEN << >> ELSE <<n % 256>> \o ToDigits(n \div 256, w - 1)

Reverse(s) == [k \in 1..Len(s) |-> s[Len(s) + 1 - k]]

\* d, read as an unbounded number, is below 2^(8w).
Fits(d, w) == \A k \in 1..Len(d) : k > w => d[k] = 0

\* Equality of the numbers two digit sequences stand for.
SameNumber(a, b) ==
    LET n == IF Len(a) > Len(b) THEN Len(a) ELSE Len(b)
    IN  Trunc(a, n) = Trunc(b, n)

\* Normalises a sequence of column sums into digits; the carry out of the
\* last column is dropped.
RECURSIVE Carry(_, _)
Carry(cols, c) ==
    IF cols = << >> THEN << >>
    ELSE <<(cols[1] + c) % 256>> \o Carry(Tail(cols), (cols[1] + c) \div 256)

\* a + b in an unsigned type of w bytes.
Add(a, b, w) == Carry([k \in 1..w |-> Trunc(a, w)[k] + Trunc(b, w)[k]], 0)

RECURSIVE ColSum(_, _, _, _)
ColSum(a, b, k, i) ==
    IF i > k THEN 0 ELSE a[i] * b[k + 1 - i] + ColSum(a, b, k, i + 1)

\* a * b in an unsigned type of w bytes.
Mul(a, b, w) ==
    LET x == Trunc(a, w)
        y == Trunc(b, w)
    IN  Carry([k \in 1..w |-> ColSum(x, y, k, 1)], 0)

\* a - b in an unsigned type of w bytes (two's complement).
Sub(a, b, w) ==
    Add(Add(a, [k \in 1..w |-> 255 - Trunc(b, w)[k]], w), ToDigits(1, w), w)

RECURSIVE BitAnd(_, _)
BitAnd(a, b) ==
    IF a = 0 \/ b = 0 THEN 0
    ELSE (a % 2) * (b % 2) + 2 * BitAnd(a \div 2, b \div 2)

RECURSIVE BitOr(_, _)
BitOr(a, b) ==
    IF a = 0 THEN b ELSE IF b = 0 THEN a
    ELSE (IF a % 2 = 1 \/ b % 2 = 1 THEN 1 ELSE 0) + 2 * BitOr(a \div 2, b \div 2)

\* Operators & and | on two integers of the same type.
And(a, b) == [k \in 1..Len(a) |-> BitAnd(a[k], b[k])]
Or(a, b) == [k \in 1..Len(a) |-> BitOr(a[k], b[k])]

\* Operators >> and << by a multiple of 8 bits, in the type of a.  The
\* left operand of every >> in the source is non-negative.
Shr(a, bits) ==
    [k \in 1..Len(a) |-> IF k + bits \div 8 <= Len(a) THEN a[k + bits \div 8] ELSE 0]
Shl(a, bits) ==
    [k \in 1..Len(a) |-> IF k - bits \div 8 >= 1 THEN a[k - bits \div 8] ELSE 0]

\* Operator >> 3 on a non-negative int (src/wavefile.hpp:73); the operand
\* is a uint16_t promoted to int, so it is below 2^16.
Shr3(d) == ToDigits((d[1] + 256 * d[2]) \div 8, 4)

\* Integral promotion of a 16-bit value to int.
Promote(i, sgn) ==
    IF sgn /\ i[Len(i)] >= 128 THEN i \o <<255, 255>> ELSE i \o <<0, 0>>

\* Bytes of an integer object at increasing addresses.
Mem(x, h) == IF h = "little" THEN x ELSE Reverse(x)

----------------------------------------------------------------------------
\* src/endians.hpp

ProbePattern == <<68, 51, 34, 17>>   \* 0x11223344

is_big_endian(h) == Mem(ProbePattern, h)[1] = 17

is_little_endian(h) == Mem(ProbePattern, h)[1] = 68

byteswap8(i) == i

byteswap16(i, sgn) ==
    LET p == Promote(i, sgn)
    IN  Trunc(Or(Shr(And(p, <<0, 255, 0, 0>>), 8),
                 Shl(And(p, <<255, 0, 0, 0>>), 8)), 2)

\* A swap that exchanges only the outer bytes of a 32-bit integer.
byteswap32_outer(i) ==
    Or(Or(Shr(And(i, <<0, 0, 0, 255>>), 24), And(i, <<0, 255, 255, 0>>)),
       Shl(And(i, <<255, 0, 0, 0>>), 24))

byteswap32(i) ==
    Or(Or(Shr(And(i, <<0, 0, 0, 255>>), 24),
          Shr(And(i, <<0, 0, 255, 0>>), 8)),
       Or(Shl(And(i, <<0, 255, 0, 0>>), 8),
          Shl(And(i, <<255, 0, 0, 0>>), 24)))

byteswap64(i) ==
    Or(Or(Or(Shr(And(i, <<0, 0, 0, 0, 0, 0, 0, 255>>), 56),
             Shr(And(i, <<0, 0, 0, 0, 0, 0, 255, 0>>), 40)),
          Or(Shr(And(i, <<0, 0, 0, 0, 0, 255, 0, 0>>), 24),
             Shr(And(i, <<0, 0, 0, 0, 255, 0, 0, 0>>), 8))),
       Or(Or(Shl(And(i, <<0, 0, 0, 255, 0, 0, 0, 0>>), 8),
             Shl(And(i, <<0, 0, 255, 0, 0, 0, 0, 0>>), 24)),
          Or(Shl(And(i, <<0, 255, 0, 0, 0, 0, 0, 0>>), 40),
             Shl(And(i, <<255, 0, 0, 0, 0, 0, 0, 0>>), 56))))

\* Overload selection by sizeof(T).
byteswap(i, sgn) ==
    CASE Len(i) = 1 -> byteswap8(i)
      [] Len(i) = 2 -> byteswap16(i, sgn)
      [] Len(i) = 4 -> byteswap32(i)
      [] Len(i) = 8 -> byteswap64(i)

\* A constructor that stores the native value as it is.
BigEndian_noswap(i, sgn, h) == i

\* A conversion that tests for the wrong host order.
BigEndianToT_wronghost(val, sgn, h) == IF is_big_endian(h) THEN byteswap(val, sgn) ELSE val

\* BigEndian(T const& i) and BigEndian::operator T()
BigEndian(i, sgn, h) == IF is_little_endian(h) THEN byteswap(i, sgn) ELSE i
BigEndianToT(val, sgn, h) == IF is_little_endian(h) THEN byteswap(val, sgn) ELSE val

\* LittleEndian(T const& i) and LittleEndian::operator T()
LittleEndian(i, sgn, h) == IF is_big_endian(h) THEN byteswap(i, sgn) ELSE i
LittleEndianToT(val, sgn, h) == IF is_big_endian(h) THEN byteswap(val, sgn) ELSE val

----------------------------------------------------------------------------
\* Endian wrappers as a state machine: a wrapper is constructed from a native
\* value e_v and later converted back; e_val is its private member _val.
\* One wrapper object is followed from its construction on.

ByteVals == {0, 18, 255}

Widths == {1, 2, 4, 8}

\* Native values a wrapper is built from: every combination of ByteVals for
\* the widths up to 32 bits, every combination of two of them for 64 bits,
\* and the value whose bytes are 1, 2, ..., w.
Values(w) ==
    (IF w <= 4 THEN [1..w -> ByteVals] ELSE [1..w -> {18, 255}])
        \cup {[k \in 1..w |-> k]}

InitWave ==
    /\ pc = "idle"
    /\ call = [T |-> "none", channels |-> << >>, sample_rate |-> << >>,
               listed |-> FALSE, samples |-> << >>, size |-> << >>]
    /\ hargs = << >>
    /\ header = << >>
    /\ sample_bytes = << >>
    /\ stream = [open |-> FALSE, good |-> FALSE]
    /\ file = [exists |-> FALSE, bytes |-> << >>]
    /\ result = "none"
    /\ trace = << >>
    /\ front_ub = FALSE

InitEndianVars ==
    /\ e_pc = "none"
    /\ e_tag = "none"
    /\ e_w = 0
    /\ e_sgn = FALSE
    /\ e_v = << >>
    /\ e_val = << >>
    /\ e_out = << >>

InitEndian == host \in Hosts /\ InitEndianVars /\ InitWave

ConstructBigEndian ==
    \E w \in Widths : \E sgn \in BOOLEAN : \E v \in Values(w) :
        /\ e_pc = "none"
        /\ e_pc' = "built"
        /\ e_tag' = "BigEndian"
        /\ e_w' = w
        /\ e_sgn' = sgn
        /\ e_v' = v
        /\ e_val' = BigEndian(v, sgn, host)
        /\ e_out' = << >>
        /\ UNCHANGED <<host, wvars>>

ConstructLittleEndian ==
    \E w \in Widths : \E sgn \in BOOLEAN : \E v \in Values(w) :
        /\ e_pc = "none"
        /\ e_pc' = "built"
        /\ e_tag' = "LittleEndian"
        /\ e_w' = w
        /\ e_sgn' = sgn
        /\ e_v' = v
        /\ e_val' = LittleEndian(v, sgn, host)
        /\ e_out' = << >>
        /\ UNCHANGED <<host, wvars>>

ConvertBigEndian ==
    /\ e_pc = "built"
    /\ e_tag = "BigEndian"
    /\ e_pc' = "read"
    /\ e_out' = BigEndianToT(e_val, e_sgn, host)
    /\ UNCHANGED <<host, e_tag, e_w, e_sgn, e_v, e_val, wvars>>

ConvertLittleEndian ==
    /\ e_pc = "built"
    /\ e_tag = "LittleEndian"
    /\ e_pc' = "read"
    /\ e_out' = LittleEndianToT(e_val, e_sgn, host)
    /\ UNCHANGED <<host, e_tag, e_w, e_sgn, e_v, e_val, wvars>>

NextEndian ==
    \/ ConstructBigEndian
    \/ ConstructLittleEndian
    \/ ConvertBigEndian
    \/ ConvertLittleEndian

SpecEndian == InitEndian /\ [][NextEndian]_vars

\* C1: round trip. Converting a wrapper back with operator T yields exactly
\* the value it was constructed from, for every width, tag and host order.
RoundTrip == e_pc = "read" => e_out = e_v

\* A wrapper of a 64-bit value whose bytes are all different was built on a
\* host whose order differs from the tag (so both conversions swapped) and
\* read back.
RoundTripWitness ==
    /\ e_pc = "read"
    /\ e_w = 8
    /\ e_v = [k \in 1..8 |-> k]
    /\ e_val # e_v
    /\ e_out = e_v

\* Bytes of a value most significant first / least significant first.
MsbFirst(v) == Reverse(v)
LsbFirst(v) == v

\* C2: tagged storage order. The bytes of _val in memory are the value's
\* bytes most significant first under BigEndian and least significant first
\* under LittleEndian, on both hosts; _val is the byte reversal of the value
\* exactly when the host order differs from the tag and the value otherwise.
StorageOrder ==
    e_pc \in {"built", "read"} =>
        /\ e_tag = "BigEndian" => Mem(e_val, host) = MsbFirst(e_v)
        /\ e_tag = "LittleEndian" => Mem(e_val, host) = LsbFirst(e_v)
        /\ e_val = IF (e_tag = "BigEndian") = (host = "big")
                   THEN e_v ELSE Reverse(e_v)

\* A 32-bit value with four different bytes stored under the BigEndian tag
\* on a little-endian host: _val is the reversed value.
StorageOrderWitness ==
    /\ e_pc = "built"
    /\ e_tag = "BigEndian"
    /\ host = "little"
    /\ e_v = <<1, 2, 3, 4>>
    /\ e_val = <<4, 3, 2, 1>>
    /\ Mem(e_val, host) = <<4, 3, 2, 1>>

----------------------------------------------------------------------------
\* src/wavefile.hpp

\* enum class AudioFormat
PCM == 1
FLOAT == 3

\* Value of a four-character literal such as 'RIFF' (type int): the first
\* character is the most significant byte, as GCC, Clang and MSVC define it.
MultiChar(s) == Reverse(s)

RIFF == <<82, 73, 70, 70>>
WAVE == <<87, 65, 86, 69>>
FMT_ == <<102, 109, 116, 32>>
DATA == <<100, 97, 116, 97>>

\* Members of Header in declaration order.  Every member has an even size,
\* so #pragma pack(2) leaves no padding between them.
HeaderLayout ==
    <<"riff_id", "riff_chunk_size", "wave_id", "fmt_id", "fmt_size",
      "audio_format", "num_channels", "sample_rate", "byte_rate",
      "block_align", "bits_per_sample", "data_id", "data_chunk_size">>

\* The default member initialisers; each member holds the _val of its wrapper.
HeaderDefaults(h) ==
    [riff_id         |-> BigEndian(MultiChar(RIFF), FALSE, h),
     riff_chunk_size |-> LittleEndian(ToDigits(0, 4), FALSE, h),
     wave_id         |-> BigEndian(MultiChar(WAVE), FALSE, h),
     fmt_id          |-> BigEndian(MultiChar(FMT_), FALSE, h),
     fmt_size        |-> LittleEndian(ToDigits(16, 4), FALSE, h),
     audio_format    |-> LittleEndian(ToDigits(PCM, 2), FALSE, h),
     num_channels    |-> LittleEndian(ToDigits(1, 2), FALSE, h),
     sample_rate     |-> LittleEndian(ToDigits(44100, 4), FALSE, h),
     byte_rate       |-> LittleEndian(ToDigits(44100 * 2, 4), FALSE, h),
     block_align     |-> LittleEndian(ToDigits(2, 2), FALSE, h),
     bits_per_sample |-> LittleEndian(ToDigits(16, 2), FALSE, h),
     data_id         |-> BigEndian(MultiChar(DATA), FALSE, h),
     data_chunk_size |-> LittleEndian(ToDigits(0, 4), FALSE, h)]

RECURSIVE Flatten(_)
Flatten(ss) == IF ss = << >> THEN << >> ELSE ss[1] \o Flatten(Tail(ss))

\* The object representation of a Header: what
\* reinterpret_cast<char const*>(&header) points to.
HeaderImage(hdr, h) ==
    Flatten([k \in 1..Len(HeaderLayout) |-> Mem(hdr[HeaderLayout[k]], h)])

sizeof_Header == Len(HeaderImage(HeaderDefaults("little"), "little"))

\* Native value of a header member (operator T of its wrapper).
Field(hdr, f, h) ==
    IF f \in {"riff_id", "wave_id", "fmt_id", "data_id"}
    THEN BigEndianToT(hdr[f], FALSE, h)
    ELSE LittleEndianToT(hdr[f], FALSE, h)

\* The statements of Header(channels, sr, bit_depth, format, sample_count):
\* channels and bit_depth are uint16_t, sr and sample_count uint32_t.
\* Products of two 16-bit operands are computed in int, products with a
\* 32-bit operand in unsigned int, the sum with sizeof(Header) in size_t;
\* each result is converted to the width of the member it is assigned to.
\* The operands named *_m are members (the _val of a wrapper), read through
\* operator T.

\* const uint16_t bytes_per_sample = bits_per_sample >> 3;
bytes_per_sample_of(bits_per_sample_m, h) ==
    Trunc(Shr3(Promote(LittleEndianToT(bits_per_sample_m, FALSE, h), FALSE)), 2)

\* A product that is clamped to 65535 instead of converted to 16 bits.
block_align_clamped(num_channels_m, bytes_per_sample, h) ==
    LET prod == Mul(Promote(LittleEndianToT(num_channels_m, FALSE, h), FALSE),
                    Promote(bytes_per_sample, FALSE), 4)
    IN  LittleEndian(IF Fits(prod, 2) THEN Trunc(prod, 2) ELSE <<255, 255>>,
                     FALSE, h)

\* block_align = num_channels * bytes_per_sample;
block_align_of(num_channels_m, bytes_per_sample, h) ==
    LittleEndian(
        Trunc(Mul(Promote(LittleEndianToT(num_channels_m, FALSE, h), FALSE),
                  Promote(bytes_per_sample, FALSE), 4), 2),
        FALSE, h)

\* byte_rate = sample_rate * block_align;
byte_rate_of(sample_rate_m, block_align_m, h) ==
    LittleEndian(
        Mul(LittleEndianToT(sample_rate_m, FALSE, h),
            Promote(LittleEndianToT(block_align_m, FALSE, h), FALSE), 4),
        FALSE, h)

\* data_chunk_size = sample_count * bytes_per_sample;
data_chunk_size_of(sample_count, bytes_per_sample, h) ==
    LittleEndian(Mul(sample_count, Promote(bytes_per_sample, FALSE), 4), FALSE, h)

\* A sum that leaves out the - 8.
riff_chunk_size_no8(data_chunk_size_m, h) ==
    LittleEndian(
        Trunc(Add(ToDigits(sizeof_Header, 8),
                  Trunc(LittleEndianToT(data_chunk_size_m, FALSE, h), 8), 8), 4),
        FALSE, h)

\* riff_chunk_size = sizeof(Header) + data_chunk_size - 8;
riff_chunk_size_of(data_chunk_size_m, h) ==
    LittleEndian(
        Trunc(Sub(Add(ToDigits(sizeof_Header, 8),
                      Trunc(LittleEndianToT(data_chunk_size_m, FALSE, h), 8), 8),
                  ToDigits(8, 8), 8), 4),
        FALSE, h)

Header(channels, sr, bit_depth, format, sample_count, h) ==
    LET num_channels == LittleEndian(channels, FALSE, h)
        sample_rate == LittleEndian(sr, FALSE, h)
        bits_per_sample == LittleEndian(bit_depth, FALSE, h)
        audio_format == LittleEndian(ToDigits(format, 2), FALSE, h)
        bytes_per_sample == bytes_per_sample_of(bits_per_sample, h)
        block_align == block_align_of(num_channels, bytes_per_sample, h)
        byte_rate == byte_rate_of(sample_rate, block_align, h)
        data_chunk_size == data_chunk_size_of(sample_count, bytes_per_sample, h)
        riff_chunk_size == riff_chunk_size_of(data_chunk_size, h)
    IN  [HeaderDefaults(h) EXCEPT
            !.num_channels = num_channels,
            !.sample_rate = sample_rate,
            !.bits_per_sample = bits_per_sample,
            !.audio_format = audio_format,
            !.block_align = block_align,
            !.byte_rate = byte_rate,
            !.data_chunk_size = data_chunk_size,
            !.riff_chunk_size = riff_chunk_size]

SampleTypes == {"uint8_t", "int16_t", "float"}

sizeof(T) == CASE T = "uint8_t" -> 1 [] T = "int16_t" -> 2 [] T = "float" -> 4

\* The three overloads of write: bit depth and format passed to Header.
write_bit_depth(T) == CASE T = "uint8_t" -> 8 [] T = "int16_t" -> 16 [] T = "float" -> 32
\* A dispatch that passes PCM for every sample type.
write_format_pcm(T) == PCM

\* A size computation that counts samples instead of bytes.
write_sample_bytes_count(T, size) == size

write_format(T) == CASE T = "uint8_t" -> PCM [] T = "int16_t" -> PCM [] T = "float" -> FLOAT

\* const Header header(channels, sample_rate, <bits>, <format>, samples.size());
\* the arguments as the constructor receives them: size is samples.size(), a
\* size_t, converted to the uint32_t parameter sample_count.
write_args(T, channels, sr, size) ==
    [channels |-> channels, sr |-> sr,
     bit_depth |-> ToDigits(write_bit_depth(T), 2),
     format |-> write_format(T),
     sample_count |-> Trunc(size, 4)]

write_header(T, channels, sr, size, h) ==
    LET a == write_args(T, channels, sr, size)
    IN  Header(a.channels, a.sr, a.bit_depth, a.format, a.sample_count, h)

\* sample_bytes of _write_file: sizeof(T) * samples.size() as std::streamsize
\* (64 bits; a vector never holds so many elements that this overflows).
write_sample_bytes(T, size) == Mul(ToDigits(sizeof(T), 8), size, 8)

----------------------------------------------------------------------------
\* Header construction and size computation of write for buffers given by
\* their length alone (lengths up to and beyond 2^32 elements).

ChannelVals == {ToDigits(1, 2), ToDigits(2, 2), <<0, 128>>, <<255, 255>>}

RateVals == {ToDigits(8000, 4), ToDigits(44100, 4), <<0, 0, 0, 128>>,
             <<255, 255, 255, 255>>}

SizeVals ==
    {ToDigits(0, 8), ToDigits(4, 8), ToDigits(100, 8),
     <<0, 0, 0, 64, 0, 0, 0, 0>>,           \* 2^30
     <<255, 255, 255, 127, 0, 0, 0, 0>>,    \* 2^31 - 1
     <<0, 0, 0, 128, 0, 0, 0, 0>>,          \* 2^31
     <<255, 255, 255, 255, 0, 0, 0, 0>>,    \* 2^32 - 1
     <<0, 0, 0, 0, 1, 0, 0, 0>>,            \* 2^32
     <<100, 0, 0, 0, 1, 0, 0, 0>>}          \* 2^32 + 100

InitHeader == host \in Hosts /\ InitEndianVars /\ InitWave

WriteSizes ==
    \E T \in SampleTypes : \E ch \in ChannelVals : \E sr \in RateVals :
    \E size \in SizeVals :
        /\ pc = "idle"
        /\ pc' = "sized"
        /\ call' = [T |-> T, channels |-> ch, sample_rate |-> sr,
                    listed |-> FALSE, samples |-> << >>, size |-> size]
        /\ hargs' = write_args(T, ch, sr, size)
        /\ header' = write_header(T, ch, sr, size, host)
        /\ sample_bytes' = write_sample_bytes(T, size)
        /\ UNCHANGED <<host, evars, stream, file, result, trace, front_ub>>

NextHeader == WriteSizes

SpecHeader == InitHeader /\ [][NextHeader]_vars

----------------------------------------------------------------------------
\* WaveFile::write and _write_file, statement by statement, for buffers
\* whose contents are enumerated.

\* The number a digit sequence stands for (used for numbers below 2^31).
RECURSIVE ToInt(_)
ToInt(d) == IF d = << >> THEN 0 ELSE d[1] + 256 * ToInt(Tail(d))

SampleVals(T) ==
    CASE T = "uint8_t" -> {<<0>>, <<128>>, <<255>>}
      [] T = "int16_t" -> {<<0, 0>>, <<1, 0>>, <<255, 255>>, <<255, 127>>}
      [] T = "float" -> {<<0, 0, 0, 0>>, <<0, 0, 128, 63>>, <<0, 0, 128, 191>>}

Buffers(T) == UNION {[1..n -> SampleVals(T)] : n \in 0..MaxSamples}

\* The bytes of the vector's storage, from &samples.front() on.
SampleImage(samples, h) ==
    Flatten([k \in 1..Len(samples) |-> Mem(samples[k], h)])

Take(s, n) == SubSeq(s, 1, IF n < Len(s) THEN n ELSE Len(s))

Init == host \in Hosts /\ InitEndianVars /\ InitWave

\* Entry of write: the header is built, _write_file is entered.
Enter(T) ==
    \E ch \in {ToDigits(1, 2), ToDigits(2, 2)} :
    \E sr \in {ToDigits(8000, 4), ToDigits(44100, 4)} :
    \E samples \in Buffers(T) :
        /\ pc = "idle"
        /\ pc' = "open"
        /\ call' = [T |-> T, channels |-> ch, sample_rate |-> sr,
                    listed |-> TRUE, samples |-> samples,
                    size |-> ToDigits(Len(samples), 8)]
        /\ hargs' = write_args(T, ch, sr, ToDigits(Len(samples), 8))
        /\ header' = write_header(T, ch, sr, ToDigits(Len(samples), 8), host)
        /\ UNCHANGED <<host, evars, sample_bytes, stream, file, result, trace,
                       front_ub>>

write_uint8 == Enter("uint8_t")
write_int16 == Enter("int16_t")
write_float == Enter("float")

\* std::ofstream out_stream(filename, std::ios::binary); if (out_stream)
OpenOk ==
    /\ pc = "open"
    /\ pc' = "write_header"
    /\ stream' = [open |-> TRUE, good |-> TRUE]
    /\ file' = [exists |-> TRUE, bytes |-> << >>]
    /\ trace' = Append(trace, "open")
    /\ UNCHANGED <<host, evars, call, hargs, header, sample_bytes, result, front_ub>>

OpenFail ==
    /\ pc = "open"
    /\ pc' = "return_false"
    /\ stream' = [open |-> FALSE, good |-> FALSE]
    /\ UNCHANGED <<host, evars, call, hargs, header, sample_bytes, file, result,
                   trace, front_ub>>

\* ostream::write(p, n) on the stream: nothing happens on a stream that is
\* not good; otherwise all n bytes are stored, or the write fails after k < n
\* bytes and the stream goes bad.
StreamWrite(data) ==
    IF ~stream.good
    THEN UNCHANGED <<stream, file>>
    ELSE \/ /\ file' = [file EXCEPT !.bytes = @ \o data]
            /\ UNCHANGED stream
         \/ \E k \in {0, Len(data) \div 2} :
                /\ k < Len(data)
                /\ file' = [file EXCEPT !.bytes = @ \o Take(data, k)]
                /\ stream' = [stream EXCEPT !.good = FALSE]

\* A header write followed by a misplaced out_stream.close().
WriteHeader_closes ==
    /\ pc = "write_header"
    /\ pc' = "write_samples"
    /\ file' = [file EXCEPT !.bytes = @ \o Take(HeaderImage(header, host), sizeof_Header)]
    /\ stream' = [stream EXCEPT !.open = FALSE]
    /\ trace' = trace \o <<"write", "close">>
    /\ UNCHANGED <<host, evars, call, hargs, header, sample_bytes, result, front_ub>>

\* out_stream.write(reinterpret_cast<char const*>(&header), sizeof(header));
WriteHeader ==
    /\ pc = "write_header"
    /\ pc' = "write_samples"
    /\ StreamWrite(Take(HeaderImage(header, host), sizeof_Header))
    /\ trace' = Append(trace, "write")
    /\ UNCHANGED <<host, evars, call, hargs, header, sample_bytes, result, front_ub>>

\* sample_bytes = sizeof(T) * samples.size();
\* out_stream.write(reinterpret_cast<char const*>(&samples.front()), sample_bytes);
\* for a non-empty buffer.
WriteSamples ==
    /\ pc = "write_samples"
    /\ call.samples # << >>
    /\ pc' = "close"
    /\ sample_bytes' = write_sample_bytes(call.T, call.size)
    /\ StreamWrite(Take(SampleImage(call.samples, host),
                        ToInt(write_sample_bytes(call.T, call.size))))
    /\ trace' = Append(trace, "write")
    /\ UNCHANGED <<host, evars, call, hargs, header, result, front_ub>>

\* The same statements for an empty buffer: samples.front() is evaluated on
\* an empty vector, which is undefined.  Either the resulting pointer is
\* never read from (zero bytes are requested) and the call goes on, or a
\* checking standard library stops the program in front().
WriteSamplesEmpty ==
    /\ pc = "write_samples"
    /\ call.samples = << >>
    /\ sample_bytes' = write_sample_bytes(call.T, call.size)
    /\ front_ub' = TRUE
    /\ \/ /\ pc' = "close"
          /\ trace' = Append(trace, "write")
       \/ /\ pc' = "aborted"
          /\ UNCHANGED trace
    /\ UNCHANGED <<host, evars, call, hargs, header, stream, file, result>>

\* out_stream.close();
Close ==
    /\ pc = "close"
    /\ pc' = "return_true"
    /\ stream' = [stream EXCEPT !.open = FALSE]
    /\ trace' = Append(trace, "close")
    /\ UNCHANGED <<host, evars, call, hargs, header, sample_bytes, file, result,
                   front_ub>>

\* The destructor of out_stream, run when _write_file returns.
Destroy ==
    /\ stream' = [stream EXCEPT !.open = FALSE]
    /\ trace' = IF stream.open THEN Append(trace, "close") ELSE trace

\* return true;
ReturnTrue ==
    /\ pc = "return_true"
    /\ pc' = "returned"
    /\ result' = TRUE
    /\ Destroy
    /\ UNCHANGED <<host, evars, call, hargs, header, sample_bytes, file, front_ub>>

\* return false;
ReturnFalse ==
    /\ pc = "return_false"
    /\ pc' = "returned"
    /\ result' = FALSE
    /\ Destroy
    /\ UNCHANGED <<host, evars, call, hargs, header, sample_bytes, file, front_ub>>

Next ==
    \/ write_uint8
    \/ write_int16
    \/ write_float
    \/ OpenOk
    \/ OpenFail
    \/ WriteHeader
    \/ WriteSamples
    \/ WriteSamplesEmpty
    \/ Close
    \/ ReturnTrue
    \/ ReturnFalse

Spec == Init /\ [][Next]_vars

----------------------------------------------------------------------------
\* Properties of the header (SpecHeader)

F(f) == Field(header, f, host)

\* bit_depth / 8 of the constructor's argument, as a number.
ArgBytesPerSample == ToDigits(ToInt(hargs.bit_depth) \div 8, 2)

InputsKept ==
    /\ F("num_channels") = hargs.channels
    /\ F("sample_rate") = hargs.sr
    /\ F("bits_per_sample") = hargs.bit_depth
    /\ F("fmt_size") = ToDigits(16, 4)

\* C3 as stated: for every input the derived fields read back from the
\* header equal the exact products and sums: block_align = channels *
\* bytes_per_sample, byte_rate = sample_rate * block_align, data_chunk_size =
\* sample_count * bytes_per_sample, riff_chunk_size = 44 + data_chunk_size - 8.
DerivedFieldsExact ==
    pc = "sized" =>
        /\ InputsKept
        /\ SameNumber(F("block_align"), Mul(hargs.channels, ArgBytesPerSample, 8))
        /\ SameNumber(F("byte_rate"), Mul(hargs.sr, F("block_align"), 8))
        /\ SameNumber(F("data_chunk_size"),
                      Mul(hargs.sample_count, ArgBytesPerSample, 8))
        /\ SameNumber(F("riff_chunk_size"),
                      Sub(Add(ToDigits(44, 8), F("data_chunk_size"), 8),
                          ToDigits(8, 8), 8))

\* C3 as amended: the inputs are kept, fmt_size is 16, and each derived
\* field equals its exact product or sum whenever that number fits the
\* field (16 bits for block_align, 32 bits for the others).
DerivedFieldsWhenFit ==
    pc = "sized" =>
        LET ba == Mul(hargs.channels, ArgBytesPerSample, 8)
            br == Mul(hargs.sr, F("block_align"), 8)
            dcs == Mul(hargs.sample_count, ArgBytesPerSample, 8)
            riff == Sub(Add(ToDigits(44, 8), F("data_chunk_size"), 8),
                        ToDigits(8, 8), 8)
        IN  /\ InputsKept
            /\ Fits(ba, 2) => SameNumber(F("block_align"), ba)
            /\ Fits(br, 4) => SameNumber(F("byte_rate"), br)
            /\ Fits(dcs, 4) => SameNumber(F("data_chunk_size"), dcs)
            /\ Fits(riff, 4) => SameNumber(F("riff_chunk_size"), riff)

\* The header of 100 16-bit samples, 2 channels, 44100 Hz.
DerivedFieldsWitness ==
    /\ pc = "sized"
    /\ hargs.channels = ToDigits(2, 2)
    /\ hargs.sr = ToDigits(44100, 4)
    /\ hargs.bit_depth = ToDigits(16, 2)
    /\ hargs.sample_count = ToDigits(100, 4)
    /\ F("block_align") = ToDigits(4, 2)
    /\ F("byte_rate") = ToDigits(176400, 4)
    /\ F("data_chunk_size") = ToDigits(200, 4)
    /\ F("riff_chunk_size") = ToDigits(236, 4)

\* C4: tag literalness. On both hosts and for every input, the header is 44
\* bytes long and its bytes at offsets 0-3, 8-11, 12-15 and 36-39 are the
\* ASCII codes of RIFF, WAVE, "fmt " and data in that order.
TagLiteral ==
    pc = "sized" =>
        LET img == HeaderImage(header, host)
        IN  /\ Len(img) = 44
            /\ SubSeq(img, 1, 4) = <<82, 73, 70, 70>>
            /\ SubSeq(img, 9, 12) = <<87, 65, 86, 69>>
            /\ SubSeq(img, 13, 16) = <<102, 109, 116, 32>>
            /\ SubSeq(img, 37, 40) = <<100, 97, 116, 97>>

\* A header built on a little-endian host, where the tag members are
\* stored byte-swapped, for inputs that overflow block_align.
TagLiteralWitness ==
    /\ pc = "sized"
    /\ host = "little"
    /\ hargs.channels = <<255, 255>>
    /\ header.riff_id = <<82, 73, 70, 70>>
    /\ SubSeq(HeaderImage(header, host), 37, 40) = <<100, 97, 116, 97>>

\* C10: overflow wraps. Every derived field is its formula reduced modulo
\* the field width, in the order computed: block_align modulo 2^16,
\* byte_rate from the reduced block_align modulo 2^32, data_chunk_size from
\* samples.size() modulo 2^32 times bytes_per_sample modulo 2^32,
\* riff_chunk_size = 36 + data_chunk_size modulo 2^32; and Subchunk2Size
\* equals the number of sample bytes write passes to the stream exactly
\* when samples.size() * bytes_per_sample is below 2^32.
OverflowWraps ==
    pc = "sized" =>
        LET bps == ArgBytesPerSample
            ba == Trunc(Mul(call.channels, bps, 8), 2)
            br == Trunc(Mul(call.sample_rate, ba, 8), 4)
            dcs == Trunc(Mul(Trunc(call.size, 4), bps, 8), 4)
            riff == Trunc(Add(ToDigits(36, 8), dcs, 8), 4)
        IN  /\ F("block_align") = ba
            /\ F("byte_rate") = br
            /\ F("data_chunk_size") = dcs
            /\ F("riff_chunk_size") = riff
            /\ SameNumber(F("data_chunk_size"), sample_bytes)
                   <=> Fits(Mul(call.size, bps, 8), 4)

\* 2^32 + 100 16-bit samples on 32768 channels: block_align wraps to 0 and
\* Subchunk2Size to 200, while 2^33 + 200 sample bytes are written.
OverflowWrapsWitness ==
    /\ pc = "sized"
    /\ call.T = "int16_t"
    /\ call.channels = <<0, 128>>
    /\ call.size = <<100, 0, 0, 0, 1, 0, 0, 0>>
    /\ F("block_align") = <<0, 0>>
    /\ F("byte_rate") = <<0, 0, 0, 0>>
    /\ F("data_chunk_size") = ToDigits(200, 4)
    /\ sample_bytes = <<200, 0, 0, 0, 2, 0, 0, 0>>

----------------------------------------------------------------------------
\* Properties of write (Spec)

Range(s) == {s[k] : k \in 1..Len(s)}

Opened == "open" \in Range(trace)

\* C5: format dispatch. The format code and bit depth depend on the sample
\* type alone: uint8_t gives 1 and 8, int16_t gives 1 and 16, float gives 3
\* and 32; the sample count passed to the header is samples.size().
FormatDispatch ==
    pc # "idle" =>
        /\ call.T = "uint8_t" =>
               F("audio_format") = <<1, 0>> /\ F("bits_per_sample") = <<8, 0>>
        /\ call.T = "int16_t" =>
               F("audio_format") = <<1, 0>> /\ F("bits_per_sample") = <<16, 0>>
        /\ call.T = "float" =>
               F("audio_format") = <<3, 0>> /\ F("bits_per_sample") = <<32, 0>>
        /\ hargs.sample_count = ToDigits(Len(call.samples), 4)

\* A float buffer of two samples was written.
FormatDispatchWitness ==
    /\ pc = "returned"
    /\ call.T = "float"
    /\ Len(call.samples) = 2
    /\ F("audio_format") = <<3, 0>>
    /\ F("bits_per_sample") = <<32, 0>>

\* C6 as stated: write returns true exactly when the destination was opened
\* and both stream writes succeeded, and false otherwise.
FailureReported ==
    pc = "returned" => (result = TRUE <=> (Opened /\ stream.good))

\* C7 as stated: writing an empty buffer to a writable destination never
\* evaluates samples.front(), returns true and leaves a file of exactly 44
\* bytes whose Subchunk2Size is 0.
EmptyBufferDefined ==
    (pc # "idle" /\ call.samples = << >> /\ Opened /\ stream.good) =>
        /\ ~front_ub
        /\ pc # "aborted"
        /\ pc = "returned" =>
               /\ result = TRUE
               /\ Len(file.bytes) = 44
               /\ F("data_chunk_size") = <<0, 0, 0, 0>>

\* C8: output layout. After a write of a non-empty buffer of N samples of W
\* bytes in which the destination was opened and both stream writes
\* succeeded, the file holds exactly 44 + N*W bytes: the header (with the
\* inputs in its little-endian fields), then the samples in buffer order
\* and host layout.
OutputLayout ==
    (pc = "returned" /\ result = TRUE /\ stream.good /\ call.samples # << >>) =>
        LET N == Len(call.samples)
            W == sizeof(call.T)
        IN  /\ file.exists
            /\ Len(file.bytes) = 44 + N * W
            /\ SubSeq(file.bytes, 1, 44) = HeaderImage(header, host)
            /\ SubSeq(file.bytes, 23, 24) = call.channels
            /\ SubSeq(file.bytes, 25, 28) = call.sample_rate
            /\ SubSeq(file.bytes, 35, 36) = ToDigits(8 * W, 2)
            /\ SubSeq(file.bytes, 41, 44) = ToDigits(N * W, 4)
            /\ \A i \in 1..N : \A j \in 1..W :
                   file.bytes[44 + (i - 1) * W + j] =
                       IF host = "little" THEN call.samples[i][j]
                       ELSE call.samples[i][W + 1 - j]

\* [0, 1, -1, 32767] written as 16-bit mono at 8000 Hz on a little-endian
\* host: the 52 bytes of the file.
OutputLayoutWitness ==
    /\ pc = "returned"
    /\ result = TRUE
    /\ host = "little"
    /\ call.T = "int16_t"
    /\ call.samples = <<<<0, 0>>, <<1, 0>>, <<255, 255>>, <<255, 127>>>>
    /\ file.bytes = <<82, 73, 70, 70, 44, 0, 0, 0, 87, 65, 86, 69,
                      102, 109, 116, 32, 16, 0, 0, 0, 1, 0, 1, 0,
                      64, 31, 0, 0, 128, 62, 0, 0, 2, 0, 16, 0,
                      100, 97, 116, 97, 8, 0, 0, 0,
                      0, 0, 1, 0, 255, 255, 255, 127>>

\* C9: destination lifecycle. At most one destination is opened per call,
\* every stream write comes after the open and before the close, the stream
\* is open only between the open and the close, and when write has returned
\* the destination is closed (and was closed if it had been opened).
Lifecycle ==
    /\ Cardinality({k \in 1..Len(trace) : trace[k] = "open"}) <= 1
    /\ \A k \in 1..Len(trace) :
           trace[k] = "write" =>
               /\ \E j \in 1..(k - 1) : trace[j] = "open"
               /\ \A j \in 1..(k - 1) : trace[j] # "close"
    /\ stream.open => pc \in {"write_header", "write_samples", "close", "aborted"}
    /\ pc = "returned" =>
           /\ ~stream.open
           /\ Opened => trace[Len(trace)] = "close"
           /\ file.exists <=> Opened

\* A call whose header write failed has returned: the destination was
\* opened, written to twice and closed.
LifecycleWitness ==
    /\ pc = "returned"
    /\ ~stream.good
    /\ ~stream.open
    /\ trace = <<"open", "write", "write", "close">>

====
